---- MODULE Spec2Model ----
(***************************************************************************)
(* Model of the AIO readiness checker: the salient-section extractor       *)
(* (app/core/extractor.py), the five rule-based detectors and the score    *)
(* blender (app/core/scorer.py), the judge's result (app/core/analyzer.py) *)
(* and the per-URL evaluation steps of /aio-check (app/main.py).           *)
(***************************************************************************)
EXTENDS Integers, Sequences, FiniteSets, TLC

(***************************************************************************)
(* Binary64 arithmetic.  The blender multiplies integer scores by the      *)
(* float literals 0.7, 0.3, 0.20, 0.30, 0.15, adds the products and calls  *)
(* Python's round().  Every value that occurs is a non-negative multiple   *)
(* of 2^-55 below 2^7, so a float is held as a 63-bit fixed-point number   *)
(* in units of 2^-55, split in three limbs of 21 bits <<hi, mid, lo>>.     *)
(***************************************************************************)
LimbBase == 2^21

\* carry propagation between the limbs
FNorm(h, m, l) ==
    LET m1 == m + (l \div LimbBase)
    IN  << h + (m1 \div LimbBase), m1 % LimbBase, l % LimbBase >>

\* round-to-nearest, ties-to-even, to a 53-bit significand: the rounding
\* IEEE 754 applies to the exact result of every * and +
RoundToDouble(x) ==
    LET h == x[1]
        s == CHOOSE k \in 0..10 :
                 /\ h < 2048 * 2^k
                 /\ (k = 0 \/ h >= 1024 * 2^k)
        unit == 2^s
        rem  == x[3] % unit
        low  == x[3] - rem
        odd  == (x[3] \div unit) % 2 = 1
        up   == s > 0 /\ (2 * rem > unit \/ (2 * rem = unit /\ odd))
    IN  IF up THEN FNorm(h, x[2], low + unit) ELSE << h, x[2], low >>

\* int * float: the int converts exactly, the product is rounded once
FMul(n, w) == RoundToDouble(FNorm(n * w[1], n * w[2], n * w[3]))

\* float + float
FAdd(x, y) == RoundToDouble(FNorm(x[1] + y[1], x[2] + y[2], x[3] + y[3]))

\* Python 3 round(float): nearest integer of the exact value, ties to even
PyRound(x) ==
    LET ip   == x[1] \div 8192
        fh   == x[1] % 8192
        tie  == fh = 4096 /\ x[2] = 0 /\ x[3] = 0
        more == fh >= 4096 /\ ~tie
    IN  IF more \/ (tie /\ ip % 2 = 1) THEN ip + 1 ELSE ip

\* the binary64 values of the literals of scorer.py, in units of 2^-55
rule_weight == << 5734, 838860, 1677720 >>      \* 0.7
llm_weight  == << 2457, 1258291, 419430 >>      \* 0.3
W020        == << 1638, 838860, 1677722 >>      \* 0.20
W030        == << 2457, 1258291, 419430 >>      \* 0.30
W015        == << 1228, 1677721, 1258291 >>     \* 0.15

\* round(rule * rule_weight + llm * llm_weight)
Blend(rule, llm) == PyRound(FAdd(FMul(rule, rule_weight), FMul(llm, llm_weight)))

\* the composite with the weights of the first two categories exchanged
TotalSwapped(c, a, e, s, k) ==
    PyRound(FAdd(FAdd(FAdd(FAdd(FMul(c, W030), FMul(a, W020)),
                           FMul(e, W020)), FMul(s, W015)), FMul(k, W015)))
\* the composite truncated with int() instead of rounded
TotalTruncated(c, a, e, s, k) ==
    FAdd(FAdd(FAdd(FAdd(FMul(c, W020), FMul(a, W030)),
                   FMul(e, W020)), FMul(s, W015)), FMul(k, W015))[1] \div 8192
\* round(0.20*c + 0.30*a + 0.20*e + 0.15*s + 0.15*k), summed left to right
Total(c, a, e, s, k) ==
    PyRound(FAdd(FAdd(FAdd(FAdd(FMul(c, W020), FMul(a, W030)),
                           FMul(e, W020)), FMul(s, W015)), FMul(k, W015)))

(***************************************************************************)
(* Strings are sequences of one-character strings.  An optional value      *)
(* (a tag that find() may not find, an attribute a tag may not carry) is   *)
(* the empty sequence for None and a one-element sequence otherwise.       *)
(***************************************************************************)
None == << >>
Some(x) == << x >>

Min(a, b) == IF a < b THEN a ELSE b
Max(a, b) == IF a > b THEN a ELSE b
\* a clamp that forgets the upper limit, and one that forgets the lower
ClampLowerOnly(score) == Max(0, score)
ClampUpperOnly(score) == Min(100, score)
Clamp(score) == Max(0, Min(100, score))

Rep(ch, n) == [i \in 1..n |-> ch]

IsSpace(c) == c \in {" ", "\n", "\t"}

\* the first index from i upward, and the last from i downward, that holds
\* no whitespace
RECURSIVE FirstInk(_, _)
FirstInk(str, i) ==
    IF i > Len(str) \/ ~IsSpace(str[i]) THEN i ELSE FirstInk(str, i + 1)
RECURSIVE LastInk(_, _)
LastInk(str, i) ==
    IF i < 1 \/ ~IsSpace(str[i]) THEN i ELSE LastInk(str, i - 1)

\* str.strip()
Strip(str) == SubSeq(str, FirstInk(str, 1), LastInk(str, Len(str)))

\* str.lower() on the letters the model uses
LowerChar(c) ==
    CASE c = "N" -> "n" [] c = "O" -> "o" [] c = "I" -> "i"
      [] c = "D" -> "d" [] c = "E" -> "e" [] c = "X" -> "x"
      [] OTHER -> c
Lower(str) == [i \in 1..Len(str) |-> LowerChar(str[i])]

\* sub in str
Contains(str, sub) ==
    \E i \in 0..(Len(str) - Len(sub)) : SubSeq(str, i + 1, i + Len(sub)) = sub

\* a slice that does not cut
TakeAll(str, n) == str
\* str[:n]
Take(str, n) == SubSeq(str, 1, Min(n, Len(str)))

\* sep.join(parts)
RECURSIVE Join(_, _)
Join(parts, sep) ==
    IF parts = << >> THEN << >>
    ELSE IF Len(parts) = 1 THEN parts[1]
    ELSE parts[1] \o sep \o Join(Tail(parts), sep)

RECURSIVE SumSeq(_)
SumSeq(q) == IF q = << >> THEN 0 ELSE q[1] + SumSeq(Tail(q))


(***************************************************************************)
(* The parsed page (BeautifulSoup object).                                 *)
(*   title     : the first <title>: None or Some(text)                     *)
(*   metas     : the <meta> tags in document order, each                   *)
(*               [attr, key, content]: attr is "name" or "property",       *)
(*               content is None when the tag has no content attribute     *)
(*   canonical : the first <link rel=canonical>: None, or Some(href) with  *)
(*               href None when the tag has no href attribute              *)
(*   body      : the sibling elements of the document in order, each       *)
(*               [tag, text, li, marks]: li is the number of <li> children *)
(*               of a list, marks the outcomes of the attribute and regex  *)
(*               filters on the element ("summary" class, "faq"/"howto"    *)
(*               heading string, "itemtype" attribute)                     *)
(*   anchors   : the <a> tags, each [contact, external]: whether its href  *)
(*               matches contact|mailto|tel and ^https?://                 *)
(*   ld_json   : the application/ld+json script blocks in order            *)
(*   hits      : the outcomes of the keyword and regex searches of the     *)
(*               page's text                                               *)
(***************************************************************************)
NoHits == [summary_kw |-> FALSE, definition_count |-> 0, faq_kw |-> FALSE,
           howto_kw |-> FALSE, author_kw |-> FALSE, operator_kw |-> FALSE,
           contact_kw |-> FALSE, company_kw |-> FALSE, date_text |-> FALSE]

EmptySoup == [title |-> None, metas |-> << >>, canonical |-> None,
              body |-> << >>, anchors |-> << >>, ld_json |-> << >>,
              hits |-> NoHits]

Node(tag, text) == [tag |-> tag, text |-> text, li |-> 0, marks |-> {}]
Meta(attr, key, content) == [attr |-> attr, key |-> key, content |-> content]

\* soup.find("meta", {attr: key}): the first match in document order
FindMeta(soup, attr, key) ==
    LET hit == {i \in 1..Len(soup.metas) :
                   soup.metas[i].attr = attr /\ soup.metas[i].key = key}
    IN  IF hit = {} THEN None
        ELSE Some(soup.metas[CHOOSE i \in hit : \A j \in hit : i <= j])

\* tag.get("content", "") and (tag.get("content") or "")
ContentOf(meta) == IF meta.content = None THEN << >> ELSE meta.content[1]

\* len(soup.find_all(tag))
CountTag(soup, tags) ==
    Cardinality({i \in 1..Len(soup.body) : soup.body[i].tag \in tags})
CountMark(soup, tags, mark) ==
    Cardinality({i \in 1..Len(soup.body) :
                    soup.body[i].tag \in tags /\ mark \in soup.body[i].marks})

\* soup.get_text(separator=" ", strip=True): the stripped, non-empty strings
\* of the document joined by one space; script strings are not text
GetText(soup) ==
    LET strs  == (IF soup.title = None THEN << >> ELSE << soup.title[1] >>)
                 \o [i \in 1..Len(soup.body) |-> soup.body[i].text]
        kept  == SelectSeq([i \in 1..Len(strs) |-> Strip(strs[i])],
                           LAMBDA t : t # << >>)
    IN  Join(kept, << " " >>)

(***************************************************************************)
(* The five detectors.  Each returns [score, details]; an evidence entry   *)
(* is <<label, n>>, n being the number the source formats into the string  *)
(* (0 when it formats none).                                               *)
(***************************************************************************)
Ev(label) == << label, 0 >>
When(cond, entry) == IF cond THEN << entry >> ELSE << >>

NOINDEX == << "n", "o", "i", "n", "d", "e", "x" >>

\* the penalty applied with the wrong sign
NoindexBonus(score) == Max(0, score + 30)
\* score -= 30, and the re-clamp that follows it
NoindexPenalty(score) == Max(0, score - 30)

\* the meta the noindex check reads: robots, or googlebot when there is no
\* robots meta
NoindexMeta(soup) ==
    LET robots == FindMeta(soup, "name", "robots")
    IN  IF robots # None THEN robots ELSE FindMeta(soup, "name", "googlebot")

check_crawl_index_health(soup) ==
    LET title_tag  == soup.title
        title_text == IF title_tag = None THEN << >> ELSE Strip(title_tag[1])
        has_title  == title_tag # None /\ title_text # << >>
        meta_desc  == FindMeta(soup, "name", "description")
        has_desc   == meta_desc # None /\ Strip(ContentOf(meta_desc[1])) # << >>
        noindex    == NoindexMeta(soup)
        is_noindex == noindex # None
                      /\ Contains(Lower(ContentOf(noindex[1])), NOINDEX)
        canonical  == soup.canonical
        has_canon  == canonical # None /\ canonical[1] # None
                      /\ canonical[1][1] # << >>
        short_title == title_tag # None /\ Len(title_text) < 10
        short_desc  == meta_desc # None /\ Len(ContentOf(meta_desc[1])) < 50
        s1 == IF has_title THEN 25 ELSE 0
        s2 == s1 + (IF has_desc THEN 25 ELSE 0)
        s3 == IF is_noindex THEN NoindexPenalty(s2) ELSE s2
        s4 == s3 + (IF has_canon THEN 20 ELSE 0)
        s5 == s4 - (IF short_title THEN 10 ELSE 0)
        s6 == s5 - (IF short_desc THEN 10 ELSE 0)
    IN  [score   |-> Clamp(s6),
         details |-> << IF has_title THEN Ev("title_present") ELSE Ev("title_missing"),
                        IF has_desc THEN Ev("description_present")
                                    ELSE Ev("description_missing") >>
                     \o When(is_noindex, Ev("noindex_detected"))
                     \o << IF has_canon THEN Ev("canonical_present")
                                        ELSE Ev("canonical_missing") >>
                     \o When(short_title, Ev("title_too_short"))
                     \o When(short_desc, Ev("description_too_short"))]

\* len(soup.find_all("li"))
LiCount(soup) == SumSeq([i \in 1..Len(soup.body) |-> soup.body[i].li])

\* the text-length check with +10 already over 4000 characters
TextLengthPointsEarly(text_len) ==
    IF text_len > 4000 THEN 10 ELSE IF text_len < 1000 THEN -10 ELSE 0
\* the points of the text-length check of the answerability detector
TextLengthPoints(text_len) ==
    IF text_len > 8000 THEN 10 ELSE IF text_len > 4000 THEN 5
    ELSE IF text_len < 1000 THEN -10 ELSE 0

\* the accumulator of the answerability detector before the final clamp
AnswerabilityPoints(soup, full_text) ==
    LET h1_count == CountTag(soup, {"h1"})
        h2_count == CountTag(soup, {"h2"})
        has_summary == soup.hits.summary_kw
                       \/ CountMark(soup, {"section", "div"}, "summary") > 0
        definition_count == soup.hits.definition_count
        li_count == LiCount(soup)
        faq_indicators   == CountMark(soup, {"h1", "h2", "h3"}, "faq")
        howto_indicators == CountMark(soup, {"h1", "h2", "h3"}, "howto")
    IN  (IF h1_count = 1 THEN 20 ELSE IF h1_count > 1 THEN 10 ELSE 0)
        + (IF h2_count >= 3 THEN 20 ELSE IF h2_count > 0 THEN 10 ELSE 0)
        + (IF has_summary THEN 15 ELSE 0)
        + (IF definition_count >= 3 THEN 15
           ELSE IF definition_count > 0 THEN 10 ELSE 0)
        + (IF li_count >= 10 THEN 20 ELSE IF li_count >= 5 THEN 15
           ELSE IF li_count > 0 THEN 10 ELSE 0)
        + TextLengthPoints(Len(full_text))
        + (IF faq_indicators > 0 THEN 15 ELSE IF soup.hits.faq_kw THEN 10 ELSE 0)
        + (IF howto_indicators > 0 THEN 15
           ELSE IF soup.hits.howto_kw THEN 10 ELSE 0)

check_answerability(soup, full_text) ==
    LET h1_count == CountTag(soup, {"h1"})
        h2_count == CountTag(soup, {"h2"})
        has_summary == soup.hits.summary_kw
                       \/ CountMark(soup, {"section", "div"}, "summary") > 0
        definition_count == soup.hits.definition_count
        li_count == LiCount(soup)
        text_len == Len(full_text)
        faq_indicators   == CountMark(soup, {"h1", "h2", "h3"}, "faq")
        howto_indicators == CountMark(soup, {"h1", "h2", "h3"}, "howto")
    IN  [score   |-> Clamp(AnswerabilityPoints(soup, full_text)),
         details |-> << IF h1_count = 1 THEN Ev("h1_single")
                        ELSE IF h1_count > 1 THEN << "h1_multiple", h1_count >>
                        ELSE Ev("h1_missing"),
                        IF h2_count >= 3 THEN << "h2_good", h2_count >>
                        ELSE IF h2_count > 0 THEN << "h2_some", h2_count >>
                        ELSE Ev("h2_missing") >>
                     \o When(has_summary, Ev("summary_present"))
                     \o When(definition_count >= 3, Ev("definitions_3plus"))
                     \o When(definition_count \in 1..2,
                             << "definitions", definition_count >>)
                     \o When(li_count >= 10, << "list_items_10plus", li_count >>)
                     \o When(li_count \in 1..9, << "list_items", li_count >>)
                     \o When(text_len > 8000, Ev("text_over_8000"))
                     \o When(text_len > 4000 /\ text_len <= 8000, Ev("text_over_4000"))
                     \o When(text_len < 1000, Ev("text_under_1000"))
                     \o When(faq_indicators > 0, Ev("faq_section"))
                     \o When(faq_indicators = 0 /\ soup.hits.faq_kw, Ev("faq_keyword"))
                     \o When(howto_indicators > 0, Ev("howto_section"))
                     \o When(howto_indicators = 0 /\ soup.hits.howto_kw,
                             Ev("howto_keyword"))]

check_eeat_proxy(soup, full_text) ==
    LET by_name     == FindMeta(soup, "name", "author")
        author_meta == IF by_name # None THEN by_name
                       ELSE FindMeta(soup, "property", "article:author")
        has_author_meta == author_meta # None /\ ContentOf(author_meta[1]) # << >>
        has_author  == has_author_meta \/ soup.hits.author_kw
        has_operator == soup.hits.operator_kw
        contact_links == Cardinality({i \in 1..Len(soup.anchors) : soup.anchors[i].contact})
        has_contact == contact_links > 0 \/ soup.hits.contact_kw
        has_company == soup.hits.company_kw
        by_modified == FindMeta(soup, "property", "article:modified_time")
        date_meta   == IF by_modified # None THEN by_modified
                       ELSE FindMeta(soup, "property", "article:published_time")
        has_date    == date_meta # None \/ soup.hits.date_text
        external_links == Cardinality({i \in 1..Len(soup.anchors) : soup.anchors[i].external})
        p_ext == IF external_links >= 5 THEN 15
                 ELSE IF external_links > 0 THEN 10 ELSE 0
    IN  [score   |-> Clamp((IF has_author THEN 20 ELSE 0)
                           + (IF has_operator THEN 15 ELSE 0)
                           + (IF has_contact THEN 20 ELSE 0)
                           + (IF has_company THEN 15 ELSE 0)
                           + (IF has_date THEN 15 ELSE 0) + p_ext),
         details |-> When(has_author, Ev("author_info"))
                     \o When(has_operator, Ev("operator_info"))
                     \o When(has_contact, Ev("contact_info"))
                     \o When(has_company, Ev("company_info"))
                     \o When(has_date, Ev("update_date"))
                     \o When(external_links >= 5, Ev("external_links_5plus"))
                     \o When(external_links \in 1..4,
                             << "external_links", external_links >>)]

(***************************************************************************)
(* Structured data.  A script block is [kind, items]: kind "malformed"     *)
(* (json.loads raises), "dict", "list" or "scalar" (any other JSON value); *)
(* items are the elements of a list payload, or the one object of a dict   *)
(* payload.  An item is [is_dict, type]; type is [kind, name] with kind    *)
(* "absent", "str" (name the string), "list" (an array of types, which     *)
(* set.add() rejects as unhashable) or "num" (a non-zero number or true:   *)
(* truthy and hashable, so it is added to the set).                        *)
(***************************************************************************)
TypeStr(name) == [kind |-> "str", name |-> name]
TypeAbsent == [kind |-> "absent", name |-> << >>]
TypeList == [kind |-> "list", name |-> << >>]
TypeNum == [kind |-> "num", name |-> << >>]
Item(type) == [is_dict |-> TRUE, type |-> type]
DictBlock(type) == [kind |-> "dict", items |-> << Item(type) >>]
ListBlock(items) == [kind |-> "list", items |-> items]
MalformedBlock == [kind |-> "malformed", items |-> << >>]

\* the types one block adds to schema_types before it finishes or raises
RECURSIVE BlockTypes(_)
BlockTypes(items) ==
    IF items = << >> THEN {}
    ELSE LET item == Head(items)
         IN  IF ~item.is_dict THEN BlockTypes(Tail(items))
             ELSE IF item.type.kind = "list" THEN {}
             ELSE IF item.type.kind = "str" /\ item.type.name # << >>
                  THEN {item.type.name} \cup BlockTypes(Tail(items))
             ELSE BlockTypes(Tail(items))

SchemaTypes(soup) ==
    UNION {IF soup.ld_json[i].kind \in {"dict", "list"}
           THEN BlockTypes(soup.ld_json[i].items) ELSE {} :
           i \in 1..Len(soup.ld_json)}

\* whether one block adds a number to schema_types before it finishes or
\* raises
RECURSIVE NumberCollected(_)
NumberCollected(items) ==
    IF items = << >> THEN FALSE
    ELSE LET item == Head(items)
         IN  IF ~item.is_dict THEN NumberCollected(Tail(items))
             ELSE IF item.type.kind = "list" THEN FALSE
             ELSE item.type.kind = "num" \/ NumberCollected(Tail(items))

\* "key in schema_type" raises TypeError when schema_type is a number, and
\* the loop over schema_types is under no try: the detector raises as soon
\* as the set holds a number, whatever the order of the visit
StructuredRaises(soup) ==
    \E i \in 1..Len(soup.ld_json) :
        /\ soup.ld_json[i].kind \in {"dict", "list"}
        /\ NumberCollected(soup.ld_json[i].items)

\* the dict important_types in insertion order
important_types ==
    << [key |-> << "F", "A", "Q", "P", "a", "g", "e" >>, points |-> 30],
       [key |-> << "H", "o", "w", "T", "o" >>, points |-> 30],
       [key |-> << "P", "r", "o", "d", "u", "c", "t" >>, points |-> 25],
       [key |-> << "A", "r", "t", "i", "c", "l", "e" >>, points |-> 25],
       [key |-> << "B", "l", "o", "g", "P", "o", "s", "t", "i", "n", "g" >>, points |-> 25],
       [key |-> << "B", "r", "e", "a", "d", "c", "r", "u", "m", "b", "L", "i", "s", "t" >>, points |-> 20],
       [key |-> << "O", "r", "g", "a", "n", "i", "z", "a", "t", "i", "o", "n" >>, points |-> 20],
       [key |-> << "W", "e", "b", "P", "a", "g", "e" >>, points |-> 15],
       [key |-> << "W", "e", "b", "S", "i", "t", "e" >>, points |-> 15] >>

\* the points of the first entry whose key is a substring of the type, or 0
TypePoints(schema_type) ==
    LET hit == {i \in 1..Len(important_types) :
                   Contains(schema_type, important_types[i].key)}
    IN  IF hit = {} THEN 0
        ELSE important_types[CHOOSE i \in hit : \A j \in hit : i <= j].points

\* the orders in which "for schema_type in schema_types" can visit the set
IterationOrders(types) ==
    {q \in [1..Cardinality(types) -> types] :
        \A i, j \in 1..Cardinality(types) : i # j => q[i] # q[j]}

check_structured_data(soup, order) ==
    LET microdata_items == CountMark(soup, {"h1", "h2", "h3", "p", "div", "section",
                                            "ul", "ol", "img"}, "itemtype")
        matched == SelectSeq(order, LAMBDA t : TypePoints(t) > 0)
    IN  [score   |-> Clamp(SumSeq([i \in 1..Len(order) |-> TypePoints(order[i])])
                           + (IF microdata_items > 0 THEN 10 ELSE 0)),
         details |-> [i \in 1..Len(matched) |-> << "schema_detected", matched[i] >>]
                     \o When(microdata_items > 0, << "microdata", microdata_items >>)]

\* the accumulator of the consistency detector before the final clamp
ConsistencyPoints(soup, full_text) ==
    LET text_len == Len(full_text)
        h1_count == CountTag(soup, {"h1"})
        h2_count == CountTag(soup, {"h2"})
        p_count  == CountTag(soup, {"p"})
        img_count  == CountTag(soup, {"img"})
        list_count == CountTag(soup, {"ul", "ol"})
    IN  50 + (IF text_len < 500 THEN -30 ELSE IF text_len < 1000 THEN -20
              ELSE IF text_len > 5000 THEN 20 ELSE 0)
           + (IF h1_count = 1 /\ h2_count >= 2 THEN 20
              ELSE IF h1_count = 0 \/ h2_count = 0 THEN -15 ELSE 0)
           + (IF p_count >= 5 /\ (img_count > 0 \/ list_count > 0) THEN 10
              ELSE IF p_count < 3 THEN -10 ELSE 0)

check_content_consistency(soup, full_text) ==
    LET text_len == Len(full_text)
        h1_count == CountTag(soup, {"h1"})
        h2_count == CountTag(soup, {"h2"})
        p_count  == CountTag(soup, {"p"})
        img_count  == CountTag(soup, {"img"})
        list_count == CountTag(soup, {"ul", "ol"})
        thin     == text_len < 500
        thinnish == ~thin /\ text_len < 1000
        rich     == text_len > 5000
        good_headings == h1_count = 1 /\ h2_count >= 2
        poor_headings == ~good_headings /\ (h1_count = 0 \/ h2_count = 0)
        diverse  == p_count >= 5 /\ (img_count > 0 \/ list_count > 0)
        few_p    == ~diverse /\ p_count < 3
    IN  [score   |-> Clamp(ConsistencyPoints(soup, full_text)),
         details |-> When(thin, Ev("content_thin"))
                     \o When(thinnish, Ev("content_rather_thin"))
                     \o When(rich, Ev("content_rich"))
                     \o When(good_headings, Ev("headings_good"))
                     \o When(poor_headings, Ev("headings_poor"))
                     \o When(diverse, Ev("elements_diverse"))
                     \o When(few_p, Ev("few_paragraphs"))]

(***************************************************************************)
(* The blender.  llm_scores is None or Some(dict); a dict is a function    *)
(* from key strings to integers.  The keys stand for the source's keys:    *)
(*   "CrawlIndex" Crawl/Index健全性    "Answerability" 回答性                *)
(*   "Trust" 信頼性                    "E-E-A-T" E-E-A-T                     *)
(*   "StructuredData" 構造化データ      "Consistency" コンテンツ一貫性         *)
(*   "Total" 総合スコア                                                      *)
(***************************************************************************)
\* dict.get(key, default)
Get(dict, key, default) == IF key \in DOMAIN dict THEN dict[key] ELSE default

\* the truth value of "if llm_scores:"
Truthy(llm_scores) == llm_scores # None /\ DOMAIN llm_scores[1] # {}

\* the five rule-based results of one page
Signals(soup, full_text, order) ==
    [crawl_index   |-> check_crawl_index_health(soup),
     answerability |-> check_answerability(soup, full_text),
     eeat          |-> check_eeat_proxy(soup, full_text),
     structured    |-> check_structured_data(soup, order),
     consistency   |-> check_content_consistency(soup, full_text)]

\* the key of llm_scores each category's blend reads
LlmKey == [crawl_index |-> "CrawlIndex", answerability |-> "Answerability",
           eeat |-> "E-E-A-T", structured |-> "StructuredData",
           consistency |-> "Consistency"]

BlendedScore(sig, llm_scores, cat) ==
    IF Truthy(llm_scores)
    THEN Blend(sig[cat].score, Get(llm_scores[1], LlmKey[cat], sig[cat].score))
    ELSE sig[cat].score

\* the blending and the composite of calculate_scores, given the five
\* rule-based results
BlendSignals(sig, llm_scores) ==
    LET crawl_index_score   == BlendedScore(sig, llm_scores, "crawl_index")
        answerability_score == BlendedScore(sig, llm_scores, "answerability")
        eeat_score          == BlendedScore(sig, llm_scores, "eeat")
        structured_score    == BlendedScore(sig, llm_scores, "structured")
        consistency_score   == BlendedScore(sig, llm_scores, "consistency")
    IN  [CrawlIndex     |-> crawl_index_score,
         Answerability  |-> answerability_score,
         Trust          |-> eeat_score,
         StructuredData |-> structured_score,
         Consistency    |-> consistency_score,
         Total          |-> Total(crawl_index_score, answerability_score, eeat_score,
                                  structured_score, consistency_score)]

\* order is the order in which the structured-data loop visits schema_types;
\* the call returns nothing when the structured-data detector raises
calculate_scores(soup, full_text, llm_scores, order) ==
    BlendSignals(Signals(soup, full_text, order), llm_scores)

(***************************************************************************)
(* The salient-section extractor.                                          *)
(***************************************************************************)
\* tag.find_next_sibling("p"): the first later sibling that is a <p>
FindNextSiblingP(soup, i) ==
    LET later == {j \in (i + 1)..Len(soup.body) : soup.body[j].tag = "p"}
    IN  IF later = {} THEN None
        ELSE Some(soup.body[CHOOSE j \in later : \A k \in later : j <= k])

HeadingLabel(tag) ==
    CASE tag = "h1" -> << "[", "H", "1", "]", " " >>
      [] tag = "h2" -> << "[", "H", "2", "]", " " >>
      [] tag = "h3" -> << "[", "H", "3", "]", " " >>

\* the lines one heading contributes: its tagged line, and the bullet line
\* of the paragraph find_next_sibling returns
HeadingParts(soup, i) ==
    LET p == FindNextSiblingP(soup, i)
    IN  << HeadingLabel(soup.body[i].tag) \o Strip(soup.body[i].text) >>
        \o (IF p = None THEN << >>
            ELSE << << "-", " " >> \o Strip(p[1].text) >>)

RECURSIVE PartsOf(_, _)
PartsOf(soup, idxs) ==
    IF idxs = {} THEN << >>
    ELSE LET i == CHOOSE m \in idxs : \A n \in idxs : m <= n
         IN  HeadingParts(soup, i) \o PartsOf(soup, idxs \ {i})

DigestLimit == 3000

extract_important_sections(soup) ==
    LET h1s   == {i \in 1..Len(soup.body) : soup.body[i].tag = "h1"}
        first == IF h1s = {} THEN {} ELSE {CHOOSE i \in h1s : \A j \in h1s : i <= j}
        h23   == {i \in 1..Len(soup.body) : soup.body[i].tag \in {"h2", "h3"}}
        parts == PartsOf(soup, first) \o PartsOf(soup, h23)
    IN  IF parts = << >> THEN Take(GetText(soup), DigestLimit)
        ELSE Take(Join(parts, << "\n" >>), DigestLimit)

(***************************************************************************)
(* State.  One page evaluation of /aio-check: the parsed page, its text,   *)
(* the digest, the judge's result, the five rule-based results and the     *)
(* ScoreSet; and the request loop around it.                               *)
(***************************************************************************)
VARIABLES pc, soup, full_text, important_text, llm_scores, signals, scores,
          urls, idx, results, configured

vars == << pc, soup, full_text, important_text, llm_scores, signals, scores,
           urls, idx, results, configured >>

\* the request, the loop position, the rows and the process configuration
request == << urls, idx, results, configured >>

NoRequest == urls = << >> /\ idx = 1 /\ results = << >> /\ configured = FALSE

(***************************************************************************)
(* Bounds of the page and judgment families the specifications draw from.  *)
(***************************************************************************)
MaxH1 == 2
MaxH2 == 3
MaxP == 5
MaxLinks == 5
MaxBlocks == 2
TextSlack == 1

\* text lengths around every threshold the detectors compare with
TextLens == {t + d : t \in {500, 1000, 4000, 5000, 8000}, d \in (0 - 1)..TextSlack}
            \cup 0..TextSlack

Filler(n) == IF n = 0 THEN << >> ELSE << Node("div", Rep("a", n)) >>
ListNode(tag, li) == [tag |-> tag, text |-> << >>, li |-> li, marks |-> {}]
Marked(tag, text, marks) == [tag |-> tag, text |-> text, li |-> 0, marks |-> marks]

\* a body with the given numbers of empty headings and paragraphs, then the
\* extra nodes, then n characters of text
BodyOf(h1, h2, p, extra, n) ==
    Rep(Node("h1", << >>), h1) \o Rep(Node("h2", << >>), h2)
    \o Rep(Node("p", << >>), p) \o extra \o Filler(n)

TitleChoices == {None, Some(<< >>), Some(<< " ", " " >>), Some(Rep("t", 9)),
                 Some(Rep("t", 10)), Some(Rep("t", 15))}
DescChoices == {<< >>,
                << Meta("name", "description", None) >>,
                << Meta("name", "description", Some(Rep(" ", 50))) >>,
                << Meta("name", "description", Some(Rep("d", 49))) >>,
                << Meta("name", "description", Some(Rep("d", 60))) >>}
INDEX_FOLLOW == << "i", "n", "d", "e", "x" >>
NOINDEX_UPPER == << "N", "O", "I", "N", "D", "E", "X" >>
NOINDEX_NOFOLLOW == NOINDEX \o << ",", " ", "n", "o", "f", "o", "l", "l", "o", "w" >>
RobotsChoices == {<< >>,
                  << Meta("name", "robots", Some(INDEX_FOLLOW)) >>,
                  << Meta("name", "robots", None) >>,
                  << Meta("name", "robots", Some(NOINDEX_NOFOLLOW)) >>,
                  << Meta("name", "robots", Some(NOINDEX_UPPER)) >>,
                  << Meta("name", "googlebot", Some(NOINDEX)) >>,
                  << Meta("name", "robots", Some(INDEX_FOLLOW)),
                     Meta("name", "googlebot", Some(NOINDEX)) >>,
                  << Meta("name", "robots", Some(INDEX_FOLLOW)),
                     Meta("name", "robots", Some(NOINDEX)) >>}
CanonicalChoices == {None, Some(None), Some(Some(<< >>)), Some(Some(<< "u" >>))}

CrawlPages ==
    {[EmptySoup EXCEPT !.title = t, !.metas = d \o r, !.canonical = c] :
        t \in TitleChoices, d \in DescChoices, r \in RobotsChoices,
        c \in CanonicalChoices}

\* heading structure against text length
HeadingPages ==
    {[EmptySoup EXCEPT !.body = BodyOf(h1, h2, 0, << >>, n)] :
        h1 \in 0..MaxH1, h2 \in 0..MaxH2, n \in TextLens}

\* paragraphs, lists and images
DiversityPages ==
    {[EmptySoup EXCEPT !.body = BodyOf(1, h2, p, lists \o imgs, 1200)] :
        h2 \in {1, 2}, p \in 0..MaxP,
        lists \in {<< >>, << ListNode("ul", 0) >>, << ListNode("ul", 1) >>,
                   << ListNode("ol", 5) >>,
                   << ListNode("ul", 4), ListNode("ol", 6) >>},
        imgs \in {<< >>, << Node("img", << >>) >>}}

\* the outcomes of the text searches and of the heading and class filters
PatternPages ==
    {[EmptySoup EXCEPT
        !.body = << Marked("h2", << "q" >>, hm), Marked("div", << >>, dm) >>
                 \o Filler(1200),
        !.hits = [NoHits EXCEPT !.summary_kw = sk, !.definition_count = dc,
                                !.faq_kw = fk, !.howto_kw = hk]] :
        hm \in SUBSET {"faq", "howto"}, dm \in SUBSET {"summary"},
        sk \in BOOLEAN, dc \in {0, 1, 2, 3}, fk \in BOOLEAN, hk \in BOOLEAN}

AuthorChoices == {<< >>,
                  << Meta("name", "author", Some(<< "w" >>)) >>,
                  << Meta("name", "author", Some(<< >>)),
                     Meta("property", "article:author", Some(<< "w" >>)) >>,
                  << Meta("property", "article:author", Some(<< "w" >>)) >>,
                  << Meta("property", "article:author", None) >>}
DateChoices == {<< >>,
                << Meta("property", "article:modified_time", Some(<< "d" >>)) >>,
                << Meta("property", "article:published_time", None) >>}
Anchor(contact, external) == [contact |-> contact, external |-> external]

TrustPages ==
    {[EmptySoup EXCEPT
        !.metas = a \o d,
        !.body = Filler(1200),
        !.hits = [NoHits EXCEPT !.author_kw = ak, !.date_text = dt]] :
        a \in AuthorChoices, d \in DateChoices, ak \in BOOLEAN, dt \in BOOLEAN}
    \cup
    {[EmptySoup EXCEPT
        !.anchors = Rep(Anchor(TRUE, FALSE), cl) \o Rep(Anchor(FALSE, TRUE), el),
        !.body = Filler(1200),
        !.hits = [NoHits EXCEPT !.operator_kw = ok, !.contact_kw = ck,
                                !.company_kw = mk]] :
        cl \in {0, 1}, el \in 0..MaxLinks,
        ok \in BOOLEAN, ck \in BOOLEAN, mk \in BOOLEAN}

\* @type values
T_FAQPage == << "F", "A", "Q", "P", "a", "g", "e" >>
T_HowTo == << "H", "o", "w", "T", "o" >>
T_Product == << "P", "r", "o", "d", "u", "c", "t" >>
T_Article == << "A", "r", "t", "i", "c", "l", "e" >>
T_BlogPosting == << "B", "l", "o", "g", "P", "o", "s", "t", "i", "n", "g" >>
T_BreadcrumbList == << "B", "r", "e", "a", "d", "c", "r", "u", "m", "b", "L", "i", "s", "t" >>
T_Organization == << "O", "r", "g", "a", "n", "i", "z", "a", "t", "i", "o", "n" >>
T_WebPage == << "W", "e", "b", "P", "a", "g", "e" >>
T_WebSite == << "W", "e", "b", "S", "i", "t", "e" >>
T_Person == << "P", "e", "r", "s", "o", "n" >>
T_ArticleWebPage == << "A", "r", "t", "i", "c", "l", "e", "W", "e", "b", "P", "a", "g", "e" >>

BlockChoices ==
    {MalformedBlock,
     [kind |-> "scalar", items |-> << >>],
     DictBlock(TypeStr(T_FAQPage)),
     DictBlock(TypeStr(T_ArticleWebPage)),
     DictBlock(TypeStr(T_Person)),
     DictBlock(TypeAbsent),
     DictBlock(TypeList),
     DictBlock(TypeNum),
     ListBlock(<< Item(TypeList), Item(TypeNum) >>),
     ListBlock(<< Item(TypeStr(T_HowTo)), Item(TypeStr(T_FAQPage)) >>),
     ListBlock(<< Item(TypeStr(T_Product)), Item(TypeList),
                  Item(TypeStr(T_FAQPage)) >>),
     ListBlock(<< [is_dict |-> FALSE, type |-> TypeAbsent],
                  Item(TypeStr(T_ArticleWebPage)) >>)}

BlockSeqs == UNION {[1..n -> BlockChoices] : n \in 0..MaxBlocks}

StructuredPages ==
    {[EmptySoup EXCEPT !.ld_json = b,
                       !.body = Rep(Marked("div", << >>, {"itemtype"}), m)] :
        b \in BlockSeqs, m \in {0, 2}}

\* the page of the end-to-end example: a 15-character title, a 60-character
\* description, one h1, three h2 each followed by a paragraph, one FAQPage
\* block, 6000 characters of body text
ExamplePage ==
    [EmptySoup EXCEPT
        !.title = Some(Rep("t", 15)),
        !.metas = << Meta("name", "description", Some(Rep("d", 60))) >>,
        !.body = << Node("h1", Rep("h", 10)),
                    Node("h2", Rep("s", 10)), Node("p", Rep("x", 100)),
                    Node("h2", Rep("s", 10)), Node("p", Rep("x", 100)),
                    Node("h2", Rep("s", 10)), Node("p", Rep("x", 100)) >>
                 \o Filler(5653),
        !.ld_json = << DictBlock(TypeStr(T_FAQPage)) >>]

\* one h1, three h2 and 6000 characters of text
AnswerExample ==
    [EmptySoup EXCEPT
        !.body = << Node("h1", Rep("h", 10)), Node("h2", Rep("s", 10)),
                    Node("h2", Rep("s", 10)), Node("h2", Rep("s", 10)) >>
                 \o Filler(5956)]

\* every answerability check rewarded: the accumulator reaches 130
RichPage ==
    [EmptySoup EXCEPT
        !.title = Some(Rep("t", 15)),
        !.metas = << Meta("name", "description", Some(Rep("d", 60))),
                     Meta("name", "author", Some(<< "w" >>)),
                     Meta("property", "article:modified_time", Some(<< "d" >>)) >>,
        !.canonical = Some(Some(<< "u" >>)),
        !.body = << Node("h1", << "h" >>), Marked("h2", << "q" >>, {"faq"}),
                    Marked("h2", << "w" >>, {"howto"}), Node("h2", << "s" >>),
                    ListNode("ul", 10), Node("img", << >>) >>
                 \o Rep(Node("p", << "x" >>), 5) \o Filler(8100),
        !.anchors = Rep(Anchor(TRUE, TRUE), 5),
        !.ld_json = << ListBlock(<< Item(TypeStr(T_FAQPage)), Item(TypeStr(T_HowTo)),
                                    Item(TypeStr(T_Product)),
                                    Item(TypeStr(T_Article)) >>) >>,
        !.hits = [summary_kw |-> TRUE, definition_count |-> 3, faq_kw |-> TRUE,
                  howto_kw |-> TRUE, author_kw |-> TRUE, operator_kw |-> TRUE,
                  contact_kw |-> TRUE, company_kw |-> TRUE, date_text |-> TRUE]]

\* every rule score is 50
EvenPage ==
    [EmptySoup EXCEPT
        !.title = Some(Rep("t", 15)),
        !.metas = << Meta("name", "description", Some(Rep("d", 60))) >>,
        !.body = BodyOf(1, 3, 3, << ListNode("ul", 10) >>, 700),
        !.ld_json = << DictBlock(TypeStr(T_FAQPage)),
                       DictBlock(TypeStr(T_Organization)) >>,
        !.hits = [NoHits EXCEPT !.author_kw = TRUE, !.operator_kw = TRUE,
                                !.company_kw = TRUE]]

\* a short title and nothing else: the rule scores 15, 0, 0, 0, 0
ThinPage == [EmptySoup EXCEPT !.title = Some(Rep("t", 5))]

BlendPages == {EmptySoup, ExamplePage, AnswerExample, RichPage, EvenPage, ThinPage}

\* the keys a judgment can carry: the five of the judge's output format, and
\* the key the blender reads for the trust category
FormatKeys == {"CrawlIndex", "Answerability", "Trust", "StructuredData", "Consistency"}
JudgeKeys == FormatKeys \cup {"E-E-A-T"}
JudgedValues == {0, 15, 50, 100}

Judgments ==
    {None}
    \cup {Some([k \in K |-> v]) : K \in SUBSET JudgeKeys, v \in JudgedValues}
    \cup {Some([k \in FormatKeys |->
                  CASE k = "CrawlIndex" -> 90 [] k = "Answerability" -> 33
                    [] k = "Trust" -> 71 [] k = "StructuredData" -> 8
                    [] OTHER -> 100])}

ScorePages == CrawlPages \cup HeadingPages \cup DiversityPages \cup PatternPages
              \cup TrustPages \cup StructuredPages

(***************************************************************************)
(* calculate_scores as one step, on a page and a judgment drawn at Init.   *)
(***************************************************************************)
InitScore ==
    /\ pc = "scoring"
    /\ \/ soup \in ScorePages /\ llm_scores = None
       \/ soup \in BlendPages /\ llm_scores \in Judgments
    /\ full_text = GetText(soup)
    /\ important_text = << >>
    /\ signals = None
    /\ scores = None
    /\ NoRequest

CalculateScores ==
    /\ pc = "scoring"
    /\ ~StructuredRaises(soup)
    /\ \E order \in IterationOrders(SchemaTypes(soup)) :
          /\ signals' = Some(Signals(soup, full_text, order))
          /\ scores' = Some(calculate_scores(soup, full_text, llm_scores, order))
    /\ pc' = "scored"
    /\ UNCHANGED << soup, full_text, important_text, llm_scores, request >>

\* the structured-data detector raises and calculate_scores with it
CalculateRaises ==
    /\ pc = "scoring"
    /\ StructuredRaises(soup)
    /\ pc' = "raised"
    /\ UNCHANGED << soup, full_text, important_text, llm_scores, signals, scores,
                    request >>

NextScore == CalculateScores \/ CalculateRaises

SpecScore == InitScore /\ [][NextScore]_vars

(***************************************************************************)
(* calculate_scores called a second time on the same page, text and        *)
(* judgment.  Each call builds its own schema_types set; the order in      *)
(* which a set of strings is visited depends on the string hashes, which   *)
(* the interpreter randomises per process, so the two calls draw their     *)
(* orders independently.                                                   *)
(***************************************************************************)
CalculateAgain ==
    /\ pc = "scored"
    /\ \E order \in IterationOrders(SchemaTypes(soup)) :
          /\ signals' = Some(Signals(soup, full_text, order))
          /\ scores' = Some(calculate_scores(soup, full_text, llm_scores, order))
    /\ pc' = "rescored"
    /\ UNCHANGED << soup, full_text, important_text, llm_scores, request >>

NextRepeat == CalculateScores \/ CalculateRaises \/ CalculateAgain

\* the pages whose evidence the visiting order can touch, without a
\* judgment and with a complete one
RepeatJudgments == {None, Some([k \in FormatKeys |-> 50])}

InitRepeat ==
    /\ pc = "scoring"
    /\ soup \in StructuredPages
    /\ llm_scores \in RepeatJudgments
    /\ full_text = GetText(soup)
    /\ important_text = << >>
    /\ signals = None
    /\ scores = None
    /\ NoRequest

SpecRepeat == InitRepeat /\ [][NextRepeat]_vars

(***************************************************************************)
(* The extractor as one step, on a page drawn at Init.                     *)
(***************************************************************************)
MaxNodes == 3

NodeChoices ==
    {Node("h1", << "a" >>), Node("h2", << "b" >>), Node("h3", Rep("c", 2990)),
     Node("p", << "x" >>), Node("p", Rep("P", 3010)),
     Node("div", << "y" >>), Node("div", Rep("D", 3001)), Node("div", << " " >>)}

ExtractPages ==
    {[EmptySoup EXCEPT !.title = t, !.body = b] :
        t \in {None, Some(<< "t" >>)},
        b \in UNION {[1..n -> NodeChoices] : n \in 0..MaxNodes}}

InitExtract ==
    /\ pc = "extracting"
    /\ soup \in ExtractPages
    /\ full_text = GetText(soup)
    /\ important_text = << >>
    /\ llm_scores = None
    /\ signals = None
    /\ scores = None
    /\ NoRequest

Extract ==
    /\ pc = "extracting"
    /\ important_text' = extract_important_sections(soup)
    /\ pc' = "extracted"
    /\ UNCHANGED << soup, full_text, llm_scores, signals, scores, request >>

NextExtract == Extract

SpecExtract == InitExtract /\ [][NextExtract]_vars

(***************************************************************************)
(* The /aio-check request: one loop iteration per URL.  The page locals    *)
(* hold the values of the most recent evaluated page (the empty page and   *)
(* empty results before the first).                                        *)
(***************************************************************************)
MaxUrls == 2

UrlChoices == {<< " " >>, << "a" >>, << "b" >>}
UrlLists == UNION {[1..n -> UrlChoices] : n \in 0..MaxUrls}
\* a page whose one ld+json block is {"@type": 5}
NumberTypePage == [EmptySoup EXCEPT !.ld_json = << DictBlock(TypeNum) >>]
FetchedPages == {EmptySoup, ThinPage, NumberTypePage}

\* what json.loads can return for the judge's answer, before the clamp
RawJudgments ==
    {[k \in K |-> v] : K \in {{"Trust"}, FormatKeys}, v \in {0 - 5, 150}}

\* get_llm_scores: the empty dict when the call or the parse fails, else
\* every value clamped to 0..100
JudgeResults == {<< >>} \cup {[k \in DOMAIN raw |-> Clamp(raw[k])] : raw \in RawJudgments}

\* the outcome of analyze_page_with_llm under the try of the loop: a report
\* or a notice, or None when the call raised
ReportChoices == {None, Some("report"), Some("notice")}

FailureRow(url) ==
    [url |-> url, status |-> "fetch_failed", total_score |-> 0, crawl_index |-> 0,
     answerability |-> 0, reliability |-> 0, structured_data |-> 0,
     consistency |-> 0, llm_report |-> None]

ResultRow(url, sc, report) ==
    [url |-> url, status |-> "OK", total_score |-> sc.Total,
     crawl_index |-> sc.CrawlIndex, answerability |-> sc.Answerability,
     reliability |-> sc.Trust, structured_data |-> sc.StructuredData,
     consistency |-> sc.Consistency, llm_report |-> report]

Init ==
    /\ pc = "request"
    /\ urls \in UrlLists
    /\ idx = 1
    /\ results = << >>
    /\ configured \in BOOLEAN
    /\ soup = EmptySoup
    /\ full_text = << >>
    /\ important_text = << >>
    /\ llm_scores = Some(<< >>)
    /\ signals = None
    /\ scores = None

page_locals == << soup, full_text, important_text, llm_scores, signals, scores >>

\* an empty URL list is answered with HTTP 400
Reject ==
    /\ pc = "request" /\ urls = << >>
    /\ pc' = "rejected"
    /\ UNCHANGED << page_locals, request >>

\* a URL that is blank after strip() is skipped
SkipBlank ==
    /\ pc = "request" /\ idx <= Len(urls)
    /\ Strip(urls[idx]) = << >>
    /\ idx' = idx + 1
    /\ UNCHANGED << pc, page_locals, urls, results, configured >>

\* the fetch or the parse raised: a failure row, and on to the next URL
FetchFailed ==
    /\ pc = "request" /\ idx <= Len(urls)
    /\ Strip(urls[idx]) # << >>
    /\ results' = Append(results, FailureRow(Strip(urls[idx])))
    /\ idx' = idx + 1
    /\ UNCHANGED << pc, page_locals, urls, configured >>

\* the page was fetched and parsed: text, digest, judgment, scores, row
Evaluate ==
    /\ pc = "request" /\ idx <= Len(urls)
    /\ Strip(urls[idx]) # << >>
    /\ \E page \in FetchedPages, judged \in JudgeResults, report \in ReportChoices :
          /\ configured \/ (judged = << >> /\ report = None)
          /\ ~StructuredRaises(page)
          /\ soup' = page
          /\ full_text' = GetText(page)
          /\ important_text' = extract_important_sections(page)
          /\ llm_scores' = Some(judged)
          /\ \E order \in IterationOrders(SchemaTypes(page)) :
                /\ signals' = Some(Signals(page, full_text', order))
                /\ scores' = Some(calculate_scores(page, full_text', llm_scores', order))
          /\ results' = Append(results, ResultRow(Strip(urls[idx]), scores'[1], report))
    /\ idx' = idx + 1
    /\ UNCHANGED << pc, urls, configured >>

\* the page was fetched and parsed, and calculate_scores raised: no try
\* encloses the call, the exception leaves aio_check and the request is
\* answered with HTTP 500 and no rows.  The judge has been called by then.
ScorerRaised ==
    /\ pc = "request" /\ idx <= Len(urls)
    /\ Strip(urls[idx]) # << >>
    /\ \E page \in FetchedPages, judged \in JudgeResults :
          /\ configured \/ judged = << >>
          /\ StructuredRaises(page)
          /\ soup' = page
          /\ full_text' = GetText(page)
          /\ important_text' = extract_important_sections(page)
          /\ llm_scores' = Some(judged)
    /\ pc' = "crashed"
    /\ UNCHANGED << signals, scores, request >>

Respond ==
    /\ pc = "request" /\ urls # << >> /\ idx > Len(urls)
    /\ pc' = "responded"
    /\ UNCHANGED << page_locals, request >>

Next == Reject \/ SkipBlank \/ FetchFailed \/ Evaluate \/ ScorerRaised \/ Respond

Spec == Init /\ [][Next]_vars

(***************************************************************************)
(* Properties.                                                             *)
(***************************************************************************)
Categories == {"crawl_index", "answerability", "eeat", "structured", "consistency"}

\* the key under which the judge's output format reports a category, which
\* is also the key of the category in the ScoreSet
FormatKey == [crawl_index |-> "CrawlIndex", answerability |-> "Answerability",
              eeat |-> "Trust", structured |-> "StructuredData",
              consistency |-> "Consistency"]

RuleScore(cat) == signals[1][cat].score
Blended(cat) == scores[1][FormatKey[cat]]
Judged(cat) == llm_scores[1][FormatKey[cat]]
HasJudgment(cat) == llm_scores # None /\ FormatKey[cat] \in DOMAIN llm_scores[1]

\* b is an integer nearest to num / den
IsRoundOf(b, num, den) == 2 * den * b - 2 * num \in (0 - den)..den

\* C1: after calculate_scores, each of the five rule scores, each of the
\* five blended scores and the composite is an integer in 0..100, whatever
\* the page and whether the judgment is absent, empty, partial or complete.
C1_ScoresInRange ==
    pc = "scored" =>
        /\ \A cat \in Categories : RuleScore(cat) \in 0..100 /\ Blended(cat) \in 0..100
        /\ scores[1].Total \in 0..100

\* a judged page whose answerability accumulator exceeds 100 has been scored
C1_Witness ==
    /\ pc = "scored"
    /\ AnswerabilityPoints(soup, full_text) > 100
    /\ llm_scores # None /\ FormatKeys \subseteq DOMAIN llm_scores[1]

\* C2: whenever the judgment carries a value J under a category's key of
\* the judge's output format, the blended score of that category is
\* round(0.7 * R + 0.3 * J), R being the detector's rule score.
C2_BlendedWhenJudged ==
    pc = "scored" =>
        \A cat \in Categories :
            HasJudgment(cat) =>
                IsRoundOf(Blended(cat), 7 * RuleScore(cat) + 3 * Judged(cat), 10)

\* C3: with no judgment (None or the empty mapping) every blended score is
\* the rule score and the two give the same ScoreSet; in a non-empty
\* judgment a category without a value keeps its rule score and a category
\* with a value is blended.
C3_Degradation ==
    pc = "scored" =>
        /\ ~Truthy(llm_scores) =>
              /\ \A cat \in Categories : Blended(cat) = RuleScore(cat)
              /\ scores[1] = BlendSignals(signals[1], None)
        /\ Truthy(llm_scores) =>
              \A cat \in Categories :
                  /\ ~HasJudgment(cat) /\ LlmKey[cat] \notin DOMAIN llm_scores[1]
                        => Blended(cat) = RuleScore(cat)
                  /\ HasJudgment(cat)
                        => IsRoundOf(Blended(cat),
                                     7 * RuleScore(cat) + 3 * Judged(cat), 10)

\* C4: the composite is round(0.20*CrawlIndex + 0.30*Answerability +
\* 0.20*Trust + 0.15*Structured + 0.15*Consistency) of the five blended
\* scores of the same ScoreSet; the five weights sum to exactly 1.0, and
\* five equal scores s give the composite s.
C4_Composite ==
    /\ FAdd(FAdd(FAdd(FAdd(W020, W030), W020), W015), W015) = << 8192, 0, 0 >>
    /\ pc = "scored" =>
          LET sc == scores[1]
          IN  /\ IsRoundOf(sc.Total, 20 * sc.CrawlIndex + 30 * sc.Answerability
                                     + 20 * sc.Trust + 15 * sc.StructuredData
                                     + 15 * sc.Consistency, 100)
              /\ (\A cat \in Categories : Blended(cat) = sc.CrawlIndex)
                    => sc.Total = sc.CrawlIndex

\* five equal, non-zero blended scores have been combined
C4_Witness ==
    /\ pc = "scored"
    /\ scores[1].CrawlIndex > 0
    /\ \A cat \in Categories : Blended(cat) = scores[1].CrawlIndex
    /\ scores[1].Total = scores[1].CrawlIndex

HasEvidence(cat, label) ==
    \E i \in 1..Len(signals[1][cat].details) : signals[1][cat].details[i] = Ev(label)

\* some robots meta of the page has a content that contains "noindex"
RobotsNoindex(page) ==
    \E i \in 1..Len(page.metas) :
        /\ page.metas[i].attr = "name" /\ page.metas[i].key = "robots"
        /\ Contains(ContentOf(page.metas[i]), NOINDEX)

\* the same page without the metas the noindex check reads
WithoutRobots(page) ==
    [page EXCEPT !.metas = SelectSeq(page.metas,
        LAMBDA m : ~(m.attr = "name" /\ m.key \in {"robots", "googlebot"}))]

\* C5: a page with a robots meta that contains "noindex" gets a Crawl/Index
\* Health score that is at most the score of the same page (same title,
\* description, canonical) without the noindex check, and is never negative.
C5_NoindexPenalty ==
    (pc = "scored" /\ RobotsNoindex(soup)) =>
        /\ RuleScore("crawl_index") <= check_crawl_index_health(WithoutRobots(soup)).score
        /\ RuleScore("crawl_index") >= 0

\* the -30 took 25 points below zero, was re-clamped, and the canonical
\* bonus and the short-title penalty followed
C5_Witness ==
    /\ pc = "scored" /\ RobotsNoindex(soup)
    /\ HasEvidence("crawl_index", "noindex_detected")
    /\ HasEvidence("crawl_index", "title_present")
    /\ HasEvidence("crawl_index", "description_missing")
    /\ HasEvidence("crawl_index", "canonical_present")
    /\ HasEvidence("crawl_index", "title_too_short")
    /\ RuleScore("crawl_index") = 10
    /\ check_crawl_index_health(WithoutRobots(soup)).score = 35

NoHeadings(page) == CountTag(page, {"h1", "h2", "h3"}) = 0

\* C6: the digest is at most 3000 characters long on the heading path and
\* on the fallback path, and for a page without h1, h2 and h3 it is the
\* first 3000 characters of the page's full text.
C6_DigestTruncated ==
    pc = "extracted" =>
        /\ Len(important_text) <= 3000
        /\ NoHeadings(soup) =>
              /\ Len(important_text) = Min(3000, Len(full_text))
              /\ \A i \in 1..Len(important_text) : important_text[i] = full_text[i]

\* the fallback cut a text of more than 3000 characters
C6_Witness ==
    /\ pc = "extracted" /\ NoHeadings(soup)
    /\ Len(full_text) > 3000 /\ Len(important_text) = 3000

\* the lines of a heading when only the very next sibling counts
AdjacentParts(page, i) ==
    << HeadingLabel(page.body[i].tag) \o Strip(page.body[i].text) >>
    \o (IF i < Len(page.body) /\ page.body[i + 1].tag = "p"
        THEN << << "-", " " >> \o Strip(page.body[i + 1].text) >>
        ELSE << >>)

RECURSIVE AdjacentPartsOf(_, _)
AdjacentPartsOf(page, idxs) ==
    IF idxs = {} THEN << >>
    ELSE LET i == CHOOSE m \in idxs : \A n \in idxs : m <= n
         IN  AdjacentParts(page, i) \o AdjacentPartsOf(page, idxs \ {i})

AdjacentDigest(page) ==
    LET h1s   == {i \in 1..Len(page.body) : page.body[i].tag = "h1"}
        first == IF h1s = {} THEN {} ELSE {CHOOSE i \in h1s : \A j \in h1s : i <= j}
        h23   == {i \in 1..Len(page.body) : page.body[i].tag \in {"h2", "h3"}}
        text  == Join(AdjacentPartsOf(page, first) \o AdjacentPartsOf(page, h23),
                      << "\n" >>)
    IN  SubSeq(text, 1, Min(3000, Len(text)))

\* C7: for the first h1 and each h2/h3 in document order the digest has a
\* bullet line for a paragraph only when the very next sibling of the
\* heading is a paragraph.
C7_AdjacentParagraphOnly ==
    (pc = "extracted" /\ ~NoHeadings(soup)) => important_text = AdjacentDigest(soup)

\* C8: the empty page without judgment scores 0 for Crawl/Index Health,
\* Answerability, Trust and Structured Data, the prior 50 minus its
\* penalties clamped at 0 for Content Consistency, and its composite is the
\* rounded weighted sum of these floors, which is not negative.
C8_EmptyPage ==
    (pc = "scored" /\ soup = EmptySoup /\ full_text = << >> /\ llm_scores = None) =>
        /\ scores[1].CrawlIndex = 0 /\ scores[1].Answerability = 0
        /\ scores[1].Trust = 0 /\ scores[1].StructuredData = 0
        /\ scores[1].Consistency = Max(0, 50 - 30 - 15 - 10)
        /\ IsRoundOf(scores[1].Total, 15 * scores[1].Consistency, 100)
        /\ scores[1].Total >= 0 /\ scores[1].Total <= 50

\* the empty page has been scored, two accumulators having gone negative
C8_Witness ==
    /\ pc = "scored" /\ soup = EmptySoup /\ full_text = << >> /\ llm_scores = None
    /\ AnswerabilityPoints(soup, full_text) < 0
    /\ ConsistencyPoints(soup, full_text) < 0

\* one h1, three h2, 6000 characters of text and no summary, definition,
\* list, FAQ or HowTo match
AnswerCase ==
    /\ CountTag(soup, {"h1"}) = 1 /\ CountTag(soup, {"h2"}) = 3
    /\ Len(full_text) = 6000
    /\ ~soup.hits.summary_kw /\ CountMark(soup, {"section", "div"}, "summary") = 0
    /\ soup.hits.definition_count = 0 /\ LiCount(soup) = 0
    /\ ~soup.hits.faq_kw /\ CountMark(soup, {"h1", "h2", "h3"}, "faq") = 0
    /\ ~soup.hits.howto_kw /\ CountMark(soup, {"h1", "h2", "h3"}, "howto") = 0

\* C9 as stated: such a page scores 20 + 20 + 10 = 50 for Answerability.
C9_Original == (pc = "scored" /\ AnswerCase) => RuleScore("answerability") = 50

\* C9 amended: such a page scores 20 for the h1, 20 for the three h2 and 5
\* for a text of more than 4000 but not more than 8000 characters: 45.
C9_Amended == (pc = "scored" /\ AnswerCase) => RuleScore("answerability") = 45

C9_Witness ==
    /\ pc = "scored" /\ AnswerCase
    /\ HasEvidence("answerability", "h1_single")
    /\ HasEvidence("answerability", "text_over_4000")

\* the page of the end-to-end example, and no judgment
ExampleCase ==
    /\ llm_scores = None
    /\ soup.title # None /\ Len(Strip(soup.title[1])) = 15
    /\ Len(soup.metas) = 1
    /\ soup.metas[1].attr = "name" /\ soup.metas[1].key = "description"
    /\ Len(ContentOf(soup.metas[1])) = 60 /\ Len(Strip(ContentOf(soup.metas[1]))) = 60
    /\ soup.canonical = None
    /\ CountTag(soup, {"h1"}) = 1 /\ CountTag(soup, {"h2"}) = 3
    /\ CountTag(soup, {"p"}) = 3 /\ CountTag(soup, {"h3", "ul", "ol", "img"}) = 0
    /\ \A i \in 1..Len(soup.body) :
          /\ soup.body[i].marks = {}
          /\ soup.body[i].tag = "h2" =>
                i < Len(soup.body) /\ soup.body[i + 1].tag = "p"
    /\ soup.ld_json = << DictBlock(TypeStr(T_FAQPage)) >>
    /\ Len(GetText([soup EXCEPT !.title = None])) = 6000
    /\ soup.anchors = << >> /\ soup.hits = NoHits

\* C10 as stated: the example page yields Crawl/Index Health 70 and a
\* composite greater than 50.
C10_Original ==
    (pc = "scored" /\ ExampleCase) => scores[1].CrawlIndex = 70 /\ scores[1].Total > 50

\* C10 amended: the example page, which has no canonical link, yields
\* Crawl/Index Health 50 (25 + 25) and the composite 42, which is not
\* greater than 50.
C10_Amended ==
    (pc = "scored" /\ ExampleCase) => scores[1].CrawlIndex = 50 /\ scores[1].Total = 42

C10_Witness ==
    /\ pc = "scored" /\ ExampleCase
    /\ scores[1].StructuredData = 30 /\ scores[1].Answerability = 45

\* the row the step appended
NewRow == results'[Len(results')]

\* the step appended exactly one row, after the rows already there
OneRowAppended ==
    /\ Len(results') = Len(results) + 1
    /\ SubSeq(results', 1, Len(results)) = results

\* the scores a row carries
RowScores(row) ==
    [CrawlIndex |-> row.crawl_index, Answerability |-> row.answerability,
     Trust |-> row.reliability, StructuredData |-> row.structured_data,
     Consistency |-> row.consistency, Total |-> row.total_score]

\* what the claim lets one step of the loop do with the URL at idx
UrlHandled ==
    LET url == Strip(urls[idx])
    IN  /\ pc' = "request" /\ idx' = idx + 1 /\ urls' = urls
        /\ IF url = << >> THEN results' = results
           ELSE /\ OneRowAppended
                /\ NewRow.url = url
                /\ \/ /\ NewRow.status = "OK"
                      /\ scores' # None /\ RowScores(NewRow) = scores'[1]
                   \/ /\ NewRow.status # "OK"
                      /\ UNCHANGED page_locals

\* C11: in the /aio-check loop every non-blank URL yields exactly one row,
\* in request order, and the loop goes on to the next URL; the row of a URL
\* whose fetch or parse failed is told apart from an evaluated page by its
\* status, and the extractor, the judge and the scorer did not run for it
\* (the page locals are untouched); a request with at least one URL ends
\* only by responding with the rows, after the last URL.
C11_FetchFailure ==
    [][/\ (pc = "request" /\ idx <= Len(urls)) => UrlHandled
       /\ (pc = "request" /\ urls # << >> /\ idx > Len(urls))
             => (pc' = "responded" /\ results' = results)]_vars

\* C12: a second invocation of the detectors and of calculate_scores on the
\* same page, full text and judgment returns what the first returned: the
\* same five scores and evidence lists, entry for entry in the same order,
\* and the same ScoreSet.
C12_Idempotent ==
    [][(pc = "scored" /\ pc' = "rescored")
          => (signals' = signals /\ scores' = scores)]_vars

\* the part of C12 about the numbers alone: the five rule scores and the
\* ScoreSet of the second invocation are those of the first
SameScores ==
    [][(pc = "scored" /\ pc' = "rescored")
          => /\ scores' = scores
             /\ \A cat \in Categories :
                   signals'[1][cat].score = signals[1][cat].score]_vars

\* the priority table in the order the claim gives
PriorityOrder ==
    << T_FAQPage, T_HowTo, T_Product, T_Article, T_BlogPosting, T_BreadcrumbList,
       T_Organization, T_WebPage, T_WebSite >>

\* the points of the first entry, in that order, whose name is a substring
\* of the type; 0 when there is none
FirstEntryPoints(type) ==
    LET hit   == {i \in 1..Len(PriorityOrder) : Contains(type, PriorityOrder[i])}
        first == CHOOSE i \in hit : \A j \in hit : i <= j
        entry == CHOOSE k \in 1..Len(important_types) :
                     important_types[k].key = PriorityOrder[first]
    IN  IF hit = {} THEN 0 ELSE important_types[entry].points

\* the distinct @type strings of the objects of the blocks that parsed: the
\* one object of a single-object payload, every object of an array payload
DeclaredTypes(page) ==
    UNION {{page.ld_json[i].items[j].type.name :
               j \in {k \in 1..Len(page.ld_json[i].items) :
                         /\ page.ld_json[i].items[k].is_dict
                         /\ page.ld_json[i].items[k].type.kind = "str"
                         /\ page.ld_json[i].items[k].type.name # << >>}} :
           i \in {b \in 1..Len(page.ld_json) : page.ld_json[b].kind \in {"dict", "list"}}}

RECURSIVE SumOfPoints(_)
SumOfPoints(types) ==
    IF types = {} THEN 0
    ELSE LET t == CHOOSE x \in types : TRUE
         IN  FirstEntryPoints(t) + SumOfPoints(types \ {t})

HasItemtype(page) ==
    \E i \in 1..Len(page.body) : "itemtype" \in page.body[i].marks

ClaimedStructuredScore(page) ==
    Min(100, SumOfPoints(DeclaredTypes(page)) + (IF HasItemtype(page) THEN 10 ELSE 0))

\* C13: the Structured Data detector returns a score, and the score is
\* min(100, the sum over the distinct @type values of the blocks that parsed
\* of the points of the first priority-table entry that is a substring of
\* the type, plus 10 when some element has an itemtype attribute): a type
\* repeated across blocks or array items counts once, a type matching
\* several entries earns the first entry's points, a malformed block adds
\* nothing and stops no other block from being scored.
C13_StructuredScore ==
    pc \in {"scored", "raised"} =>
        /\ pc = "scored"
        /\ RuleScore("structured") = ClaimedStructuredScore(soup)

\* every @type of the page's parsed blocks is a string, or absent
OnlyStringTypes(page) ==
    \A i \in 1..Len(page.ld_json) : \A j \in 1..Len(page.ld_json[i].items) :
        page.ld_json[i].items[j].type.kind \in {"str", "absent"}

\* the statement of C13 on the pages whose @type values are all strings
StructuredScoreOnStrings ==
    (pc \in {"scored", "raised"} /\ OnlyStringTypes(soup)) =>
        /\ pc = "scored"
        /\ RuleScore("structured") = ClaimedStructuredScore(soup)

\* some robots or googlebot meta of the page has a content that contains
\* "noindex", in any case of the letters
NoindexDeclared(page) ==
    \E i \in 1..Len(page.metas) :
        /\ page.metas[i].attr = "name" /\ page.metas[i].key \in {"robots", "googlebot"}
        /\ Contains(Lower(ContentOf(page.metas[i])), NOINDEX)

\* the Crawl/Index Health score with the -30 applied after the title and the
\* description checks: the score of the page with its robots and googlebot
\* metas replaced by one robots meta "noindex"
PenalisedScore(page) ==
    check_crawl_index_health(
        [page EXCEPT !.metas = WithoutRobots(page).metas
                                 \o << Meta("name", "robots", Some(NOINDEX)) >>]).score

\* C14: a page with a robots meta or a googlebot meta whose content contains
\* "noindex" (case-insensitive) gets the -30 penalty and the noindex
\* evidence, also when a robots meta without "noindex" stands beside a
\* googlebot meta with it.
C14_NoindexBothNames ==
    (pc = "scored" /\ NoindexDeclared(soup)) =>
        /\ HasEvidence("crawl_index", "noindex_detected")
        /\ RuleScore("crawl_index") = PenalisedScore(soup)

\* the part of C14 that the first robots meta, or the first googlebot meta
\* of a page without robots meta, decides
NoindexFirstMeta ==
    (pc = "scored" /\ NoindexMeta(soup) # None
       /\ Contains(Lower(ContentOf(NoindexMeta(soup)[1])), NOINDEX)) =>
        /\ HasEvidence("crawl_index", "noindex_detected")
        /\ RuleScore("crawl_index") = PenalisedScore(soup)

====
